---- MODULE Spec2Model ----
(***************************************************************************)
(* State-machine model of the image-space pipeline of realism-effects:     *)
(*   - TemporalResolvePass (src/src/SSGI/pass/DenoisePass.js, lines        *)
(*     85-250): jitter sequencer, resolve, history snapshot, resize;       *)
(*   - VelocityPass (src/src/ssgi/temporal-resolve/pass/VelocityPass.js);  *)
(*   - DenoisePass (src/src/SSGI/pass/DenoisePass.js, lines 1-84).         *)
(*                                                                         *)
(* JavaScript is single threaded: a method runs to completion before the   *)
(* application can call another one.  A method that draws several times is *)
(* modelled as a chain of steps linked by a program counter; application   *)
(* calls are enabled only while the program counter is "idle".             *)
(*                                                                         *)
(* Numbers of the jitter sequence are fixed-point: the real number r is    *)
(* the integer r * Unit.                                                   *)
(***************************************************************************)
EXTENDS Integers, Sequences, FiniteSets, TLC

VARIABLES
    \* ---- camera (three.js PerspectiveCamera) ----
    mat,                \* matrix objects: object id -> value
    cameraView,         \* camera.view: <<>> (null) or <<record>>
    projectionMatrix,   \* offset baked into camera.projectionMatrix: <<>> or <<x, y>>
    \* ---- TemporalResolvePass ----
    r2Sequence,         \* this.r2Sequence
    pointsIndex,        \* this.pointsIndex
    renderVelocity,     \* this.renderVelocity
    renderTarget,       \* this.renderTarget (render target id)
    accumulatedTexture, \* this.accumulatedTexture (texture id)
    uniforms,           \* this.fullscreenMaterial.uniforms
    copyUniforms,       \* this.copyPass.fullscreenMaterial.uniforms
    \* ---- render targets and textures (GPU side) ----
    rtSize,             \* render target id -> <<width, height>>
    tex,                \* texture id -> content
    \* ---- control ----
    pc,                 \* position inside the running method, "idle" between calls
    caller,             \* who called VelocityPass.render: "app" or "resolve"
    \* ---- observation (history variables, not program state) ----
    io,                 \* the last draw: its pass, the textures read and written
    applied,            \* offsets applied by the jitter() calls so far (one scale)
    appliedScale,       \* that scale; 0 before the first call, -1 once scales mixed
    jitterCalls,        \* number of jitter() calls so far
    unjittered,         \* unjitter() was the last of jitter()/unjitter()
    frameT,             \* colour/depth/normal of the last resolved frame
    resolveSaw,         \* the history contents read by the last resolve draw
    hasHistory,         \* a frame's snapshot has been taken
    resized,            \* the history resolution changed since the last snapshot
    camAtRenderEnd,     \* camera matrices when the last render() ended
    \* ---- DenoisePass ----
    iterations,         \* this.iterations
    dnUniforms,         \* this.fullscreenMaterial.uniforms: inputTexture, horizontal, stepSize
    dnSize,             \* sizes of renderTargetA and renderTargetB
    dnTex,              \* contents of the textures of renderTargetA / renderTargetB
    dnPc,               \* position inside DenoisePass.render, "idle" between calls
    dnLocals,           \* locals of render(): inputTexture, stepSize, i
    dnLog,              \* observation: the half-passes of the last render()
    dnInput0,           \* observation: the inputTexture given to the constructor
    dnLastSize,         \* observation: <<w, h>> of the last setSize call, <<0, 0>> if none
    \* ---- scene and VelocityPass ----
    meshMaterial,       \* mesh -> c.material
    meshVisible,        \* mesh -> c.visible
    meshClass,          \* mesh -> c.constructor.name
    background,         \* this._scene.background
    cachedMaterials,    \* this.cachedMaterials: mesh -> <<>> or <<original, velocity>>
    visibleMeshes,      \* this.visibleMeshes
    velLocals,          \* locals of VelocityPass.render: background
    atStart             \* observation: the scene when the last VelocityPass.render began, and whether
                        \* a listed mesh then carried a material replaced since its last render

trVars == <<mat, cameraView, projectionMatrix, r2Sequence, pointsIndex,
            renderVelocity, renderTarget, accumulatedTexture, uniforms,
            copyUniforms, rtSize, tex, pc, caller, io, applied, appliedScale,
            jitterCalls,
            unjittered, frameT, resolveSaw, hasHistory, resized, camAtRenderEnd>>

dnVars == <<iterations, dnUniforms, dnSize, dnTex, dnPc, dnLocals, dnLog,
            dnInput0, dnLastSize>>

scVars == <<meshMaterial, meshVisible, meshClass, background, cachedMaterials,
            visibleMeshes, velLocals, atStart>>

vars == <<trVars, dnVars, scVars>>

-----------------------------------------------------------------------------
(* Bounds of the model                                                     *)

MaxJitterCalls == 258   \* jitter() calls of one behaviour (more than one cycle)
MaxScale == 2           \* jitter scales 1..MaxScale
MaxDim == 2             \* widths and heights 1..MaxDim
MaxPose == 2            \* camera poses 0..MaxPose
MaxAge == 2             \* content ages saturate here
MaxIterations == 3      \* DenoisePass.iterations 0..MaxIterations
MaxMeshes == 2          \* meshes 1..MaxMeshes of the scene
MaxMaterials == 2       \* application materials 1..MaxMaterials

JitterScales == 1..MaxScale
Resolutions == (1..MaxDim) \X (1..MaxDim)
Poses == 0..MaxPose

Min(a, b) == IF a < b THEN a ELSE b

-----------------------------------------------------------------------------
(* R2 quasirandom sequence (utils/QuasirandomGenerator, section 4.1)       *)

Half == 500000          \* 0.5 in fixed point
Unit == 2 * Half        \* 1.0 in fixed point
A1 == 754878            \* 1/g,   g the plastic number (generalized golden ratio, d = 2)
A2 == 569840            \* 1/g^2
SeqLen == 256

Frac(x) == x % Unit

\* the i-th point of the sequence, i = 0, 1, ...
R2Point(i) == <<Frac(i * A1), Frac(i * A2)>>

generateR2(count) == [n \in 1..count |-> R2Point(n - 1)]

\* .map(([a, b]) => [a - 0.5, b - 0.5])
Centre_noShift(p) == <<p[1], p[2]>>
Centre(p) == <<p[1] - Half, p[2] - Half>>

\* (this.pointsIndex + 1) % this.r2Sequence.length
NextIndex_skip(i, len) == (i + 2) % len
NextIndex(i, len) == (i + 1) % len

-----------------------------------------------------------------------------
(* three.js camera: view offset and projection matrix                      *)

\* PerspectiveCamera.setViewOffset(fullWidth, fullHeight, x, y, width, height)
SetViewOffset(fw, fh, x, y, w, h) ==
    <<[enabled |-> TRUE, fullWidth |-> fw, fullHeight |-> fh,
       offsetX |-> x, offsetY |-> y, width |-> w, height |-> h]>>

\* PerspectiveCamera.clearViewOffset(): if (this.view !== null) this.view.enabled = false
ClearViewOffset(view) ==
    IF view = <<>> THEN view ELSE <<[view[1] EXCEPT !.enabled = FALSE]>>

\* if (this._camera.view) this._camera.view.enabled = true
EnableView(view) ==
    IF view = <<>> THEN view ELSE <<[view[1] EXCEPT !.enabled = TRUE]>>

\* PerspectiveCamera.updateProjectionMatrix(): the offset enters the matrix
\* only when a view exists and is enabled
UpdateProjectionMatrix(view) ==
    IF view # <<>> /\ view[1].enabled
    THEN <<view[1].offsetX, view[1].offsetY>>
    ELSE <<>>

ViewActive == cameraView # <<>> /\ cameraView[1].enabled

\* camera.matrixWorldInverse of a camera whose matrixWorld is the pose p
\* (a translation by p along one axis)
Inverse(p) == 0 - p

-----------------------------------------------------------------------------
(* Render targets, textures and their contents                             *)

OwnTargets == {"resolveRT", "userRT"}
RenderTargets == OwnTargets \cup {"copyRT", "velocityRT"}

\* renderTarget.texture (an array for the multiple render targets)
TexturesOf(rt) ==
    CASE rt = "resolveRT"  -> <<"resolve">>
      [] rt = "userRT"     -> <<"user">>
      [] rt = "copyRT"     -> <<"hist0", "hist1", "hist2">>
      [] rt = "velocityRT" -> <<"velocity", "depth", "normal">>

Textures == {"resolve", "user", "hist0", "hist1", "hist2",
             "velocity", "depth", "normal"}

Empty == [kind |-> "empty", age |-> 0, res |-> <<0, 0>>]

\* what a draw into a target of resolution res leaves in a texture
Drawn(kind, res) == [kind |-> kind, age |-> 0, res |-> res]

\* a new frame begins: every content is one frame older
Aged(c) == IF c.kind = "empty" THEN c ELSE [c EXCEPT !.age = Min(c.age + 1, MaxAge)]

\* the textures of render target rt
TextureSet(rt) == {TexturesOf(rt)[k] : k \in 1..Len(TexturesOf(rt))}

\* WebGLRenderTarget.setSize(width, height) on target rt; b = [size, tex] are
\* the sizes and contents before.  A change of size disposes the target, whose
\* textures are reallocated (blank) on the next use; a target that has the
\* size already keeps its contents
RenderTargetSetSize(b, rt, width, height) ==
    IF b.size[rt] = <<width, height>>
    THEN b
    ELSE [size |-> [b.size EXCEPT ![rt] = <<width, height>>],
          tex |-> [x \in Textures |-> IF x \in TextureSet(rt) THEN Empty ELSE b.tex[x]]]

\* this.texture
Texture == TexturesOf(renderTarget)[1]

-----------------------------------------------------------------------------
(* TemporalResolvePass: construction                                       *)

\* prevViewMatrix / prevCameraMatrixWorld are clones: matrix objects of their own
ConstructorPrev_alias ==
    [prevViewMatrix |-> "cam.mwi", prevCameraMatrixWorld |-> "cam.mw"]
ConstructorPrev ==
    [prevViewMatrix |-> "prev.mwi", prevCameraMatrixWorld |-> "prev.mw"]

Matrices == {"cam.mw", "cam.mwi", "prev.mw", "prev.mwi"}

\* the state after new VelocityPass(scene, camera) and
\* new TemporalResolvePass(scene, camera, velocityPass, options), for a camera
\* at pose p, options.renderVelocity = rv and options.renderTarget = rt
\* ("resolveRT": none given, the pass creates its own 1x1 target; "userRT":
\* the caller's target, of resolution ures)
Constructed(p, rv, rt, ures) ==
    /\ mat = [m \in Matrices |->
                IF m \in {"cam.mw", "prev.mw"} THEN p ELSE Inverse(p)]
    /\ cameraView = <<>>
    /\ projectionMatrix = <<>>
    /\ r2Sequence = <<>>
    /\ pointsIndex = 0
    /\ renderVelocity = rv
    /\ renderTarget = rt
    /\ accumulatedTexture = TexturesOf("copyRT")[1]
    /\ uniforms = [cameraMatrixWorld |-> "cam.mw",
                   viewMatrix |-> "cam.mwi",
                   prevViewMatrix |-> ConstructorPrev.prevViewMatrix,
                   prevCameraMatrixWorld |-> ConstructorPrev.prevCameraMatrixWorld,
                   accumulatedTexture |-> TexturesOf("copyRT")[1],
                   lastDepthTexture |-> TexturesOf("copyRT")[2],
                   lastNormalTexture |-> TexturesOf("copyRT")[3],
                   velocityTexture |-> TexturesOf("velocityRT")[1],
                   depthTexture |-> TexturesOf("velocityRT")[2],
                   normalTexture |-> TexturesOf("velocityRT")[3],
                   invTexSize |-> <<0, 0>>]
    /\ copyUniforms = [inputTexture |-> "null", inputTexture2 |-> "null",
                       inputTexture3 |-> "null"]
    /\ rtSize = [t \in RenderTargets |-> IF t = "userRT" THEN ures ELSE <<1, 1>>]
    /\ tex = [x \in Textures |-> Empty]
    /\ pc = "idle"
    /\ caller = "app"
    /\ io = [pass |-> "none", reads |-> {}, writes |-> {}]
    /\ applied = <<>>
    /\ appliedScale = 0
    /\ jitterCalls = 0
    /\ unjittered = FALSE
    /\ frameT = [colour |-> Empty, depth |-> Empty, normal |-> Empty]
    /\ resolveSaw = [colour |-> Empty, depth |-> Empty, normal |-> Empty]
    /\ hasHistory = FALSE
    /\ resized = FALSE
    /\ camAtRenderEnd = [matrixWorld |-> p, matrixWorldInverse |-> Inverse(p)]

-----------------------------------------------------------------------------
(* TemporalResolvePass.jitter / unjitter                                   *)

\* jitter(jitterScale)
Jitter(jitterScale) ==
    /\ pc = "idle"
    /\ jitterCalls < MaxJitterCalls
    /\ LET cleared == ClearViewOffset(cameraView)   \* this.unjitter()
           seq == IF Len(r2Sequence) = 0
                  THEN [n \in 1..SeqLen |-> Centre(generateR2(SeqLen)[n])]
                  ELSE r2Sequence
           idx == NextIndex(pointsIndex, Len(seq))
           x == seq[idx + 1][1]
           y == seq[idx + 1][2]
           width == rtSize[renderTarget][1]
           height == rtSize[renderTarget][2]
           view == SetViewOffset(width, height, x * jitterScale, y * jitterScale,
                                 width, height)
       IN /\ r2Sequence' = seq
          /\ pointsIndex' = idx
          /\ cameraView' = view
          /\ projectionMatrix' = UpdateProjectionMatrix(view)
          /\ jitterCalls' = jitterCalls + 1
          /\ IF appliedScale = 0 \/ appliedScale = jitterScale
             THEN /\ applied' = Append(applied, <<view[1].offsetX, view[1].offsetY>>)
                  /\ appliedScale' = jitterScale
             ELSE /\ applied' = <<>>
                  /\ appliedScale' = 0 - 1
    /\ unjittered' = FALSE
    /\ UNCHANGED <<dnVars, scVars>>
    /\ UNCHANGED <<mat, renderVelocity, renderTarget, accumulatedTexture, uniforms,
                   copyUniforms, rtSize, tex, pc, caller, io, frameT, resolveSaw,
                   hasHistory, resized, camAtRenderEnd>>

\* unjitter()
Unjitter ==
    /\ pc = "idle"
    /\ cameraView' = ClearViewOffset(cameraView)
    /\ projectionMatrix' = UpdateProjectionMatrix(cameraView')
    /\ unjittered' = TRUE
    /\ UNCHANGED <<dnVars, scVars>>
    /\ UNCHANGED <<mat, r2Sequence, pointsIndex, renderVelocity, renderTarget,
                   accumulatedTexture, uniforms, copyUniforms, rtSize, tex, pc,
                   caller, io, applied, appliedScale, jitterCalls, frameT,
                   resolveSaw, hasHistory, resized, camAtRenderEnd>>

-----------------------------------------------------------------------------
(* VelocityPass.render                                                     *)

Meshes == 1..MaxMeshes
AppMaterials == {<<"app", n>> : n \in 1..MaxMaterials}
Backgrounds == {"null", "sky"}

\* originalMaterial.visible && originalMaterial.depthWrite && originalMaterial.depthTest:
\* the application's materials of odd number have all three, the others not
DepthVisible(material) == material[2] % 2 = 1

\* new VelocityMaterial(), made for mesh c while it carries originalMaterial
NewVelocityMaterial(c, originalMaterial) == <<"velocity", c, originalMaterial[2]>>

\* the state of a scene of meshes with the given materials, visible flags and
\* classes, and of a new VelocityPass on it
SceneConstructed(materials, visible, classes, bg) ==
    /\ meshMaterial = materials
    /\ meshVisible = visible
    /\ meshClass = classes
    /\ background = bg
    /\ cachedMaterials = [c \in Meshes |-> <<>>]
    /\ visibleMeshes = {}
    /\ velLocals = [background |-> "null"]
    /\ atStart = [valid |-> FALSE, material |-> materials, visible |-> visible,
                  background |-> bg, replaced |-> FALSE]

\* a scene of plain visible meshes that all carry material 1
PlainScene ==
    SceneConstructed([c \in Meshes |-> <<"app", 1>>], [c \in Meshes |-> TRUE],
                     [c \in Meshes |-> "Mesh"], "null")

\* getVisibleChildren(this._scene): the meshes of the (flat) scene that are visible
getVisibleChildren == {c \in Meshes : meshVisible[c]}

\* lines 44-58: the cache entry of mesh c after the loop body has run for it
CacheEntry_keepStale(c) ==
    IF cachedMaterials[c] = <<>>
    THEN <<meshMaterial[c], NewVelocityMaterial(c, meshMaterial[c])>>
    ELSE cachedMaterials[c]
CacheEntry(c) ==
    IF cachedMaterials[c] = <<>> \/ meshMaterial[c] # cachedMaterials[c][1]
    THEN <<meshMaterial[c], NewVelocityMaterial(c, meshMaterial[c])>>
    ELSE cachedMaterials[c]

\* setVelocityMaterialInScene()
setVelocityMaterialInScene ==
    /\ visibleMeshes' = getVisibleChildren
    /\ cachedMaterials' = [c \in Meshes |->
                             IF c \in getVisibleChildren THEN CacheEntry(c)
                             ELSE cachedMaterials[c]]
    /\ meshMaterial' = [c \in Meshes |->
                          IF c \in getVisibleChildren THEN CacheEntry(c)[2]
                          ELSE meshMaterial[c]]
    /\ meshVisible' = [c \in Meshes |->
                         IF c \in getVisibleChildren
                         THEN DepthVisible(meshMaterial[c])
                              /\ meshClass[c] # "GroundProjectedEnv"
                         ELSE meshVisible[c]]

\* unsetVelocityMaterialInScene()
unsetVelocityMaterialInScene ==
    /\ meshVisible' = [c \in Meshes |-> IF c \in visibleMeshes THEN TRUE ELSE meshVisible[c]]
    /\ meshMaterial' = [c \in Meshes |->
                          IF c \in visibleMeshes THEN cachedMaterials[c][1]
                          ELSE meshMaterial[c]]

\* lines 122-126: velocity materials, the background saved and set to black
SceneEnter ==
    /\ setVelocityMaterialInScene
    /\ velLocals' = [background |-> background]
    /\ background' = "black"
    /\ atStart' = [valid |-> TRUE, material |-> meshMaterial, visible |-> meshVisible,
                   background |-> background,
                   replaced |-> \E c \in getVisibleChildren :
                                    /\ cachedMaterials[c] # <<>>
                                    /\ cachedMaterials[c][1] # meshMaterial[c]
                                    /\ ~DepthVisible(meshMaterial[c])]
    /\ UNCHANGED meshClass

\* lines 120-126: clearViewOffset(), velocity materials, black background
VelocityEnter_noClear(from) ==
    /\ cameraView' = cameraView
    /\ projectionMatrix' = projectionMatrix
    /\ SceneEnter
    /\ pc' = "vel_draw"
    /\ caller' = from
VelocityEnter(from) ==
    /\ cameraView' = ClearViewOffset(cameraView)
    /\ projectionMatrix' = UpdateProjectionMatrix(cameraView')
    /\ SceneEnter
    /\ pc' = "vel_draw"
    /\ caller' = from

\* the application calls velocityPass.render(renderer)
VelocityRenderBegin ==
    /\ pc = "idle"
    /\ VelocityEnter("app")
    /\ UNCHANGED dnVars
    /\ UNCHANGED <<mat, r2Sequence, pointsIndex, renderVelocity, renderTarget,
                   accumulatedTexture, uniforms, copyUniforms, rtSize, tex, io,
                   applied, appliedScale, jitterCalls, unjittered, frameT,
                   resolveSaw, hasHistory, resized, camAtRenderEnd>>

\* lines 128-129: the scene is drawn into the velocity/depth/normal textures
VelocityDraw ==
    /\ pc = "vel_draw"
    /\ LET out == TexturesOf("velocityRT")
           res == rtSize["velocityRT"]
       IN /\ tex' = [tex EXCEPT ![out[1]] = Drawn("velocity", res),
                                ![out[2]] = Drawn("depth", res),
                                ![out[3]] = Drawn("normal", res)]
          /\ io' = [pass |-> "velocity", reads |-> {}, writes |-> {out[1], out[2], out[3]}]
    /\ pc' = "vel_end"
    /\ UNCHANGED <<dnVars, scVars>>
    /\ UNCHANGED <<mat, cameraView, projectionMatrix, r2Sequence, pointsIndex,
                   renderVelocity, renderTarget, accumulatedTexture, uniforms,
                   copyUniforms, rtSize, caller, applied, appliedScale,
                   jitterCalls, unjittered, frameT, resolveSaw, hasHistory,
                   resized, camAtRenderEnd>>

\* the statement order of TemporalResolvePass.render after the velocity pass
RenderOrder_copyFirst == <<"copy", "resolve", "save">>
RenderOrder == <<"resolve", "copy", "save">>

\* the step that follows step p of render(), "idle" after the last
After(p) ==
    LET k == CHOOSE i \in 1..Len(RenderOrder) : RenderOrder[i] = p
    IN IF k = Len(RenderOrder) THEN "idle" ELSE RenderOrder[k + 1]

\* lines 131-136: background and materials restored, view re-enabled
VelocityRenderEnd ==
    /\ pc = "vel_end"
    /\ cameraView' = EnableView(cameraView)
    /\ projectionMatrix' = UpdateProjectionMatrix(cameraView')
    /\ pc' = IF caller = "resolve" THEN RenderOrder[1] ELSE "idle"
    /\ caller' = "app"
    /\ background' = velLocals.background
    /\ unsetVelocityMaterialInScene
    /\ UNCHANGED <<dnVars, meshClass, cachedMaterials, visibleMeshes, velLocals, atStart>>
    /\ UNCHANGED <<mat, r2Sequence, pointsIndex, renderVelocity, renderTarget,
                   accumulatedTexture, uniforms, copyUniforms, rtSize, tex, io,
                   applied, appliedScale, jitterCalls, unjittered, frameT,
                   resolveSaw, hasHistory, resized, camAtRenderEnd>>

-----------------------------------------------------------------------------
(* TemporalResolvePass.render                                              *)

\* render(renderer) is called: a new frame begins (every content written
\* before is one frame older); line 214
TRRenderBegin ==
    /\ pc = "idle"
    /\ tex' = [x \in Textures |-> Aged(tex[x])]
    /\ frameT' = [colour |-> Aged(frameT.colour), depth |-> Aged(frameT.depth),
                  normal |-> Aged(frameT.normal)]
    /\ IF renderVelocity
       THEN VelocityEnter("resolve")
       ELSE /\ pc' = RenderOrder[1]
            /\ UNCHANGED <<cameraView, projectionMatrix, caller, scVars>>
    /\ UNCHANGED dnVars
    /\ UNCHANGED <<mat, r2Sequence, pointsIndex, renderVelocity, renderTarget,
                   accumulatedTexture, uniforms, copyUniforms, rtSize, io,
                   applied, appliedScale, jitterCalls, unjittered, resolveSaw,
                   hasHistory, resized, camAtRenderEnd>>

\* lines 216-217: the resolve draw into this.renderTarget; the material reads
\* the history textures and the velocity pass's textures
TRResolve ==
    /\ pc = "resolve"
    /\ LET colour == Drawn("colour", rtSize[renderTarget])
       IN /\ tex' = [tex EXCEPT ![Texture] = colour]
          /\ frameT' = [colour |-> colour,
                        depth |-> tex[uniforms.depthTexture],
                        normal |-> tex[uniforms.normalTexture]]
    /\ resolveSaw' = [colour |-> tex[uniforms.accumulatedTexture],
                      depth |-> tex[uniforms.lastDepthTexture],
                      normal |-> tex[uniforms.lastNormalTexture]]
    /\ io' = [pass |-> "resolve",
              reads |-> {uniforms.accumulatedTexture, uniforms.lastDepthTexture,
                         uniforms.lastNormalTexture, uniforms.velocityTexture,
                         uniforms.depthTexture, uniforms.normalTexture},
              writes |-> {Texture}]
    /\ pc' = After("resolve")
    /\ UNCHANGED <<dnVars, scVars>>
    /\ UNCHANGED <<mat, cameraView, projectionMatrix, r2Sequence, pointsIndex,
                   renderVelocity, renderTarget, accumulatedTexture, uniforms,
                   copyUniforms, rtSize, caller, applied, appliedScale,
                   jitterCalls, unjittered, hasHistory, resized, camAtRenderEnd>>

\* lines 220-222: the inputs of the copy pass
CopyInputs_accumulated ==
    [inputTexture |-> accumulatedTexture,
     inputTexture2 |-> uniforms.depthTexture,
     inputTexture3 |-> uniforms.normalTexture]
CopyInputs ==
    [inputTexture |-> Texture,
     inputTexture2 |-> uniforms.depthTexture,
     inputTexture3 |-> uniforms.normalTexture]

\* the copy of content c that a draw into the copy pass's target leaves: the
\* same image at the resolution of that target
CopyOf(c) == IF c.kind = "empty" THEN c ELSE [c EXCEPT !.res = rtSize["copyRT"]]

\* CopyPass.render: input k is copied into texture k of the pass's own target
CopyPassRender(t, in) ==
    LET out == TexturesOf("copyRT")
    IN [x \in Textures |->
          CASE x = out[1] -> CopyOf(t[in.inputTexture])
            [] x = out[2] -> CopyOf(t[in.inputTexture2])
            [] x = out[3] -> CopyOf(t[in.inputTexture3])
            [] OTHER -> t[x]]

\* lines 219-225: the history snapshot
TRCopy ==
    /\ pc = "copy"
    /\ copyUniforms' = CopyInputs
    /\ accumulatedTexture' = copyUniforms'.inputTexture
    /\ tex' = CopyPassRender(tex, copyUniforms')
    /\ io' = [pass |-> "copy",
              reads |-> {copyUniforms'.inputTexture, copyUniforms'.inputTexture2,
                         copyUniforms'.inputTexture3},
              writes |-> TextureSet("copyRT")]
    /\ hasHistory' = TRUE
    /\ resized' = FALSE
    /\ pc' = After("copy")
    /\ UNCHANGED <<dnVars, scVars>>
    /\ UNCHANGED <<mat, cameraView, projectionMatrix, r2Sequence, pointsIndex,
                   renderVelocity, renderTarget, uniforms, rtSize, caller,
                   applied, appliedScale, jitterCalls, unjittered, frameT,
                   resolveSaw, camAtRenderEnd>>

\* lines 227-229: the camera's matrices are copied into the prev* matrices
TRSave ==
    /\ pc = "save"
    /\ mat' = [m \in Matrices |->
                 CASE m = uniforms.prevViewMatrix -> mat["cam.mwi"]
                   [] m = uniforms.prevCameraMatrixWorld -> mat["cam.mw"]
                   [] OTHER -> mat[m]]
    /\ camAtRenderEnd' = [matrixWorld |-> mat["cam.mw"],
                          matrixWorldInverse |-> mat["cam.mwi"]]
    /\ pc' = After("save")
    /\ UNCHANGED <<dnVars, scVars>>
    /\ UNCHANGED <<cameraView, projectionMatrix, r2Sequence, pointsIndex,
                   renderVelocity, renderTarget, accumulatedTexture, uniforms,
                   copyUniforms, rtSize, tex, caller, io, applied, appliedScale,
                   jitterCalls, unjittered, frameT, resolveSaw, hasHistory,
                   resized>>

-----------------------------------------------------------------------------
(* TemporalResolvePass.setSize and the application's camera                *)

\* CopyPass.setSize(width, height): the pass's target is reallocated
CopyPass_setSize(b, width, height) == RenderTargetSetSize(b, "copyRT", width, height)

\* VelocityPass.setSize(width, height)
VelocityPass_setSize_noResize(b, width, height) == b
VelocityPass_setSize(b, width, height) ==
    RenderTargetSetSize(b, "velocityRT", width, height)

\* lines 202-204: the three setSize calls of TemporalResolvePass.setSize
SetSizeBuffers_noCopy(b, width, height) ==
    VelocityPass_setSize(RenderTargetSetSize(b, renderTarget, width, height),
                         width, height)
SetSizeBuffers(b, width, height) ==
    VelocityPass_setSize(
        CopyPass_setSize(RenderTargetSetSize(b, renderTarget, width, height),
                         width, height),
        width, height)

\* setSize(width, height)
TRSetSize(width, height) ==
    /\ pc = "idle"
    /\ LET after == SetSizeBuffers([size |-> rtSize, tex |-> tex], width, height)
       IN /\ rtSize' = after.size
          /\ tex' = after.tex
    /\ uniforms' = [uniforms EXCEPT !.invTexSize = <<Unit \div width, Unit \div height>>]
    /\ resized' = (resized \/ rtSize["copyRT"] # <<width, height>>)
    /\ UNCHANGED <<dnVars, scVars>>
    /\ UNCHANGED <<mat, cameraView, projectionMatrix, r2Sequence, pointsIndex,
                   renderVelocity, renderTarget, accumulatedTexture, copyUniforms,
                   pc, caller, io, applied, appliedScale, jitterCalls, unjittered,
                   frameT, resolveSaw, hasHistory, camAtRenderEnd>>

\* between two frames the application moves the camera to pose p
MoveCamera(p) ==
    /\ pc = "idle"
    /\ mat["cam.mw"] # p
    /\ mat' = [mat EXCEPT !["cam.mw"] = p, !["cam.mwi"] = Inverse(p)]
    /\ UNCHANGED <<dnVars, scVars>>
    /\ UNCHANGED <<cameraView, projectionMatrix, r2Sequence, pointsIndex,
                   renderVelocity, renderTarget, accumulatedTexture, uniforms,
                   copyUniforms, rtSize, tex, pc, caller, io, applied,
                   appliedScale, jitterCalls, unjittered, frameT, resolveSaw,
                   hasHistory, resized, camAtRenderEnd>>

-----------------------------------------------------------------------------
(* The application changes the scene between two renders                   *)

\* mesh.material = material n
SetMaterial(c, n) ==
    /\ pc = "idle"
    /\ meshMaterial[c] # <<"app", n>>
    /\ meshMaterial' = [meshMaterial EXCEPT ![c] = <<"app", n>>]
    /\ UNCHANGED <<meshVisible, meshClass, background, cachedMaterials,
                   visibleMeshes, velLocals>>
    /\ atStart' = [valid |-> FALSE, material |-> meshMaterial', visible |-> meshVisible',
                   background |-> background', replaced |-> FALSE]
    /\ UNCHANGED <<trVars, dnVars>>

\* mesh.visible = !mesh.visible
ToggleVisible(c) ==
    /\ pc = "idle"
    /\ meshVisible' = [meshVisible EXCEPT ![c] = ~meshVisible[c]]
    /\ UNCHANGED <<meshMaterial, meshClass, background, cachedMaterials,
                   visibleMeshes, velLocals>>
    /\ atStart' = [valid |-> FALSE, material |-> meshMaterial', visible |-> meshVisible',
                   background |-> background', replaced |-> FALSE]
    /\ UNCHANGED <<trVars, dnVars>>

\* scene.background = bg
SetBackground(bg) ==
    /\ pc = "idle"
    /\ background # bg
    /\ background' = bg
    /\ UNCHANGED <<meshMaterial, meshVisible, meshClass, cachedMaterials,
                   visibleMeshes, velLocals>>
    /\ atStart' = [valid |-> FALSE, material |-> meshMaterial', visible |-> meshVisible',
                   background |-> background', replaced |-> FALSE]
    /\ UNCHANGED <<trVars, dnVars>>

-----------------------------------------------------------------------------
(* DenoisePass                                                             *)

DenoiseTextures == {"rtA", "rtB"}       \* renderTargetA.texture, renderTargetB.texture
DenoiseInputs == {"input"} \cup DenoiseTextures

\* the state after new DenoisePass(inputTexture)
DenoiseConstructed(inputTexture) ==
    /\ iterations = 1
    /\ dnUniforms = [inputTexture |-> inputTexture, horizontal |-> TRUE, stepSize |-> 1]
    /\ dnSize = [t \in DenoiseTextures |-> <<1, 1>>]
    /\ dnTex = [t \in DenoiseTextures |-> Empty]
    /\ dnPc = "idle"
    /\ dnLocals = [inputTexture |-> "null", stepSize |-> 1, i |-> 0]
    /\ dnLog = <<>>
    /\ dnInput0 = inputTexture
    /\ dnLastSize = <<0, 0>>

\* the application sets pass.iterations
SetIterations(n) ==
    /\ dnPc = "idle"
    /\ iterations # n
    /\ iterations' = n
    /\ UNCHANGED <<dnUniforms, dnSize, dnTex, dnPc, dnLocals, dnLog>>
    /\ UNCHANGED <<dnInput0, dnLastSize>>
    /\ UNCHANGED <<trVars, scVars>>

\* setSize(width, height)
DenoiseSetSize(width, height) ==
    /\ dnPc = "idle"
    /\ dnSize' = [t \in DenoiseTextures |-> <<width, height>>]
    /\ dnTex' = [t \in DenoiseTextures |->
                   IF dnSize[t] # <<width, height>> THEN Empty ELSE dnTex[t]]
    /\ dnLastSize' = <<width, height>>
    /\ UNCHANGED <<iterations, dnUniforms, dnPc, dnLocals, dnLog, dnInput0>>
    /\ UNCHANGED <<trVars, scVars>>

RECURSIVE Pow2(_)
\* 2 ** n
Pow2(n) == IF n = 0 THEN 1 ELSE 2 * Pow2(n - 1)

\* const horizontal = i % 2 === 0
Horizontal(i) == i % 2 = 0

\* if (horizontal) stepSize = 2 ** (i / 2)
StepSize_noHalving(i, stepSize) == IF Horizontal(i) THEN Pow2(i) ELSE stepSize
StepSize(i, stepSize) == IF Horizontal(i) THEN Pow2(i \div 2) ELSE stepSize

\* const renderTarget = horizontal ? this.renderTargetA : this.renderTargetB
HalfPassTarget_swapped(horizontal) == IF horizontal THEN "rtB" ELSE "rtA"
HalfPassTarget(horizontal) == IF horizontal THEN "rtA" ELSE "rtB"

\* lines 68-72: the texture half-pass i reads
HalfPassInput_unchained(i, inputTexture) ==
    IF Horizontal(i) THEN inputTexture ELSE "rtA"
HalfPassInput(i, inputTexture) ==
    IF Horizontal(i)
    THEN IF i = 0 THEN inputTexture ELSE "rtB"
    ELSE "rtA"

\* get texture()
DenoiseTexture == "rtB"

\* render(renderer) is called: lines 57-59 (contents written by earlier
\* renders are one render older)
DenoiseRenderBegin ==
    /\ dnPc = "idle"
    /\ dnLocals' = [inputTexture |-> dnUniforms.inputTexture, stepSize |-> 1, i |-> 0]
    /\ dnTex' = [t \in DenoiseTextures |-> Aged(dnTex[t])]
    /\ dnLog' = <<>>
    /\ dnPc' = "loop"
    /\ UNCHANGED <<iterations, dnUniforms, dnSize>>
    /\ UNCHANGED <<dnInput0, dnLastSize>>
    /\ UNCHANGED <<trVars, scVars>>

\* one iteration of the loop, lines 60-76
DenoiseHalfPass ==
    /\ dnPc = "loop"
    /\ dnLocals.i < 2 * iterations
    /\ LET i == dnLocals.i
           horizontal == Horizontal(i)
           stepSize == StepSize(i, dnLocals.stepSize)
           target == HalfPassTarget(horizontal)
           input == HalfPassInput(i, dnLocals.inputTexture)
       IN /\ dnUniforms' = [inputTexture |-> input, horizontal |-> horizontal,
                            stepSize |-> stepSize]
          /\ dnTex' = [dnTex EXCEPT ![target] = Drawn("denoised", dnSize[target])]
          /\ dnLog' = Append(dnLog, [i |-> i, horizontal |-> horizontal,
                                     stepSize |-> stepSize, read |-> input,
                                     write |-> target])
          /\ dnLocals' = [dnLocals EXCEPT !.stepSize = stepSize, !.i = i + 1]
    /\ UNCHANGED <<iterations, dnSize, dnPc>>
    /\ UNCHANGED <<dnInput0, dnLastSize>>
    /\ UNCHANGED <<trVars, scVars>>

\* line 78: the uniform gets back the texture saved on entry (last: the
\* texture the last half-pass left in it)
InputAfterRender_notRestored(inputTexture, last) == last
InputAfterRender(inputTexture, last) == inputTexture

\* the loop ends: line 78
DenoiseRenderEnd ==
    /\ dnPc = "loop"
    /\ ~(dnLocals.i < 2 * iterations)
    /\ dnUniforms' = [dnUniforms EXCEPT !.inputTexture =
                         InputAfterRender(dnLocals.inputTexture, dnUniforms.inputTexture)]
    /\ dnPc' = "idle"
    /\ UNCHANGED <<iterations, dnSize, dnTex, dnLocals, dnLog>>
    /\ UNCHANGED <<dnInput0, dnLastSize>>
    /\ UNCHANGED <<trVars, scVars>>

-----------------------------------------------------------------------------
(* Specifications                                                          *)

\* frames: render, resize and camera motion in any order
Init ==
    \E p \in Poses, rv \in BOOLEAN, rt \in OwnTargets, ures \in Resolutions :
        /\ (rt = "resolveRT" => ures = <<1, 1>>)
        /\ Constructed(p, rv, rt, ures)
        /\ DenoiseConstructed("input")
        /\ PlainScene

Next ==
    \/ TRRenderBegin
    \/ VelocityRenderBegin
    \/ VelocityDraw
    \/ VelocityRenderEnd
    \/ TRResolve
    \/ TRCopy
    \/ TRSave
    \/ \E w \in 1..MaxDim, h \in 1..MaxDim : TRSetSize(w, h)
    \/ \E p \in Poses : MoveCamera(p)

Spec == Init /\ [][Next]_vars

\* jitter: jitter, unjitter and the renders in any order, default render target
InitJitter ==
    /\ \E rv \in BOOLEAN : Constructed(0, rv, "resolveRT", <<1, 1>>)
    /\ DenoiseConstructed("input")
    /\ PlainScene

NextJitter ==
    \/ \E s \in JitterScales : Jitter(s)
    \/ Unjitter
    \/ TRRenderBegin
    \/ VelocityRenderBegin
    \/ VelocityDraw
    \/ VelocityRenderEnd
    \/ TRResolve
    \/ TRCopy
    \/ TRSave

SpecJitter == InitJitter /\ [][NextJitter]_vars

\* denoiser: render with any iteration count, on any input
InitDenoise ==
    /\ Constructed(0, TRUE, "resolveRT", <<1, 1>>)
    /\ \E inputTexture \in DenoiseInputs : DenoiseConstructed(inputTexture)
    /\ PlainScene

NextDenoise ==
    \/ \E n \in 0..MaxIterations : SetIterations(n)
    \/ \E w \in 1..MaxDim, h \in 1..MaxDim : DenoiseSetSize(w, h)
    \/ DenoiseRenderBegin
    \/ DenoiseHalfPass
    \/ DenoiseRenderEnd

SpecDenoise == InitDenoise /\ [][NextDenoise]_vars

\* velocity pass: renders of a scene that the application changes in between
InitVelocity ==
    /\ Constructed(0, TRUE, "resolveRT", <<1, 1>>)
    /\ DenoiseConstructed("input")
    /\ \E materials \in [Meshes -> AppMaterials], visible \in [Meshes -> BOOLEAN],
          env \in {"Mesh", "GroundProjectedEnv"}, bg \in Backgrounds :
            SceneConstructed(materials, visible,
                             [c \in Meshes |-> IF c = 1 THEN env ELSE "Mesh"], bg)

NextVelocity ==
    \/ VelocityRenderBegin
    \/ VelocityDraw
    \/ VelocityRenderEnd
    \/ \E c \in Meshes, n \in 1..MaxMaterials : SetMaterial(c, n)
    \/ \E c \in Meshes : ToggleVisible(c)
    \/ \E bg \in Backgrounds : SetBackground(bg)

SpecVelocity == InitVelocity /\ [][NextVelocity]_vars

\* resizing: both passes are resized and render, one render at a time
InitSize ==
    /\ \E rt \in OwnTargets, ures \in Resolutions :
          /\ (rt = "resolveRT" => ures = <<1, 1>>)
          /\ Constructed(0, TRUE, rt, ures)
    /\ DenoiseConstructed("input")
    /\ PlainScene

NextSize ==
    \/ dnPc = "idle" /\ \E width, height \in 1..MaxDim : TRSetSize(width, height)
    \/ dnPc = "idle" /\ TRRenderBegin
    \/ VelocityDraw
    \/ VelocityRenderEnd
    \/ TRResolve
    \/ TRCopy
    \/ TRSave
    \/ pc = "idle" /\ \E width, height \in 1..MaxDim : DenoiseSetSize(width, height)
    \/ pc = "idle" /\ DenoiseRenderBegin
    \/ DenoiseHalfPass
    \/ DenoiseRenderEnd

SpecSize == InitSize /\ [][NextSize]_vars

-----------------------------------------------------------------------------
(* Properties: jitter sequencer (checked under SpecJitter)                 *)

Abs(x) == IF x < 0 THEN 0 - x ELSE x

\* C1: the sequence index stays within 0..255 and advances by exactly one
\* modulo 256 per jitter() call, whatever unjitter()/render() calls are
\* interleaved, so that for one scale call n+256 applies the offset of call n
\* (the 257th call repeats the 1st).
C1_IndexCycles ==
    /\ pointsIndex \in 0..(SeqLen - 1)
    /\ pointsIndex = jitterCalls % SeqLen
    /\ Len(r2Sequence) \in {0, SeqLen}
    /\ \A n \in 1..(Len(applied) - SeqLen) : applied[n + SeqLen] = applied[n]

\* the 257th call of one scale has been made, with renders and unjitter()
\* calls before it
C1_Witness ==
    /\ Len(applied) = SeqLen + 1
    /\ unjittered
    /\ hasHistory

\* C2: the first 256 jitter(scale) calls on a fresh pass apply 256 pairwise
\* distinct offsets, and every component of an applied offset lies within
\* [-0.5, 0.5] * scale.
C2_DistinctInRange ==
    /\ Len(applied) >= SeqLen =>
           Cardinality({applied[n] : n \in 1..SeqLen}) = SeqLen
    /\ \A n \in 1..Len(applied) :
           /\ Abs(applied[n][1]) <= Half * appliedScale
           /\ Abs(applied[n][2]) <= Half * appliedScale
    /\ ViewActive =>
           \E s \in JitterScales :
               /\ Abs(cameraView[1].offsetX) <= Half * s
               /\ Abs(cameraView[1].offsetY) <= Half * s

\* 256 calls of a scale other than 1 have been made
C2_Witness ==
    /\ Len(applied) = SeqLen
    /\ appliedScale > 1

\* C3: at the moment VelocityPass.render draws the scene into the
\* depth/normal/velocity textures the camera's view offset is not active and
\* the projection matrix carries no offset, whatever jitter(), unjitter() and
\* render() calls came before.
C3_NoOffsetAtVelocityDraw ==
    pc = "vel_draw" => (~ViewActive /\ projectionMatrix = <<>>)

\* the velocity draw of a render that was entered with an active offset
C3_Witness ==
    /\ pc = "vel_draw"
    /\ jitterCalls > 0
    /\ ~unjittered
    /\ caller = "resolve"

\* C4 (as claimed): once unjitter() has removed the view offset it stays
\* inactive through the following render() calls, until the next jitter().
C4_StaysClearedAfterUnjitter ==
    unjittered => ~ViewActive

-----------------------------------------------------------------------------
(* Properties: frames (checked under Spec)                                 *)

HistoryTextures ==
    {uniforms.accumulatedTexture, uniforms.lastDepthTexture, uniforms.lastNormalTexture}

\* C5: the resolve draw writes a texture that is none of the history textures
\* it reads, and the snapshot copy writes textures that are none of its three
\* sources, after any sequence of render() and setSize() calls.
C5_NoReadWriteAliasing ==
    /\ io.reads \cap io.writes = {}
    /\ io.pass = "resolve" =>
           /\ io.writes = {Texture}
           /\ HistoryTextures \subseteq io.reads
           /\ Cardinality(HistoryTextures) = 3
    /\ io.pass = "copy" =>
           /\ io.writes = HistoryTextures
           /\ io.reads = {copyUniforms.inputTexture, copyUniforms.inputTexture2,
                          copyUniforms.inputTexture3}

\* a snapshot copy made after a resize and an earlier frame
C5_Witness ==
    /\ io.pass = "copy"
    /\ pc = "save"
    /\ uniforms.invTexSize # <<0, 0>>
    /\ frameT.depth.kind = "depth"

C7_PrevMatricesAreLastFrames ==
    /\ mat[uniforms.prevCameraMatrixWorld] = camAtRenderEnd.matrixWorld
    /\ mat[uniforms.prevViewMatrix] = camAtRenderEnd.matrixWorldInverse

\* the resolve step of a later frame, the camera having moved since the last
C7_Witness ==
    /\ pc = "resolve"
    /\ hasHistory
    /\ mat["cam.mw"] # camAtRenderEnd.matrixWorld
    /\ camAtRenderEnd.matrixWorld # 0

\* C8: after setSize(w, h) with a new resolution the next render() reads no
\* history content of the old resolution: its resolve draw finds the three
\* history textures blank, as the first frame's does.
C8_ResizeDropsHistory ==
    /\ (pc = "resolve" /\ resized) =>
           \A x \in HistoryTextures : tex[x] = Empty
    /\ (pc = "resolve" /\ uniforms.invTexSize # <<0, 0>>) =>
           \A x \in HistoryTextures : tex[x] = Empty \/ tex[x].res = rtSize[renderTarget]
    /\ (io.pass = "resolve" /\ pc = "copy" /\ resized) =>
           resolveSaw = [colour |-> Empty, depth |-> Empty, normal |-> Empty]

\* the resolve step of the first frame after a resize that followed a frame
C8_Witness ==
    /\ pc = "resolve"
    /\ resized
    /\ hasHistory
    /\ frameT.colour.kind = "colour"
    /\ frameT.colour.res # rtSize[renderTarget]

-----------------------------------------------------------------------------
(* Properties: denoiser (checked under SpecDenoise)                        *)

\* C9: for every iteration count >= 1, odd or even, after render() the
\* texture getter returns renderTargetB's texture, and that is the texture the
\* final half-pass of that render wrote.
C9_ResultInB ==
    (dnPc = "idle" /\ Len(dnLog) > 0) =>
        /\ DenoiseTexture = "rtB"
        /\ dnLog[Len(dnLog)].write = DenoiseTexture
        /\ Len(dnLog) % 2 = 0

\* a render with an odd iteration count (3) has completed
C9_Witness ==
    /\ dnPc = "idle"
    /\ Len(dnLog) = 6

\* C10: with an input that is neither of the pass's own textures, every
\* horizontal half-pass writes A, every vertical half-pass reads A and writes
\* B, no half-pass reads the texture it writes, half-pass 0 reads the external
\* input and every later half-pass reads what the half-pass before it wrote.
C10_PingPong ==
    (dnPc # "idle" /\ dnLocals.inputTexture \notin DenoiseTextures) =>
        \A k \in 1..Len(dnLog) :
            /\ dnLog[k].i = k - 1
            /\ dnLog[k].horizontal = ((k - 1) % 2 = 0)
            /\ dnLog[k].horizontal => dnLog[k].write = "rtA"
            /\ ~dnLog[k].horizontal => (dnLog[k].read = "rtA" /\ dnLog[k].write = "rtB")
            /\ dnLog[k].read # dnLog[k].write
            /\ k = 1 => dnLog[k].read = dnLocals.inputTexture
            /\ k > 1 => dnLog[k].read = dnLog[k - 1].write

\* a render of two iterations or more on an external input, all drawn
C10_Witness ==
    /\ dnPc = "loop"
    /\ dnLocals.inputTexture = "input"
    /\ Len(dnLog) >= 4
    /\ dnLocals.i = 2 * iterations

\* C11: the step size of half-pass i (0-based) is 2^floor(i/2): 1 for the
\* first two half-passes, doubling every two half-passes, the horizontal and
\* the vertical half-pass of one iteration using the same step size.
C11_StepSizeDoubles ==
    \A k \in 1..Len(dnLog) :
        /\ k <= 2 => dnLog[k].stepSize = 1
        /\ k > 2 => dnLog[k].stepSize = 2 * dnLog[k - 2].stepSize
        /\ ~dnLog[k].horizontal => dnLog[k].stepSize = dnLog[k - 1].stepSize
        /\ k = Len(dnLog) => dnUniforms.stepSize = dnLog[k].stepSize

\* the last half-pass of a render of three iterations, drawn with step size 4
C11_Witness ==
    /\ Len(dnLog) = 6
    /\ dnLog[6].stepSize = 4
    /\ dnLog[5].stepSize = 4

\* C12: after any sequence of render() calls with any iteration counts the
\* inputTexture uniform holds the external input it held before the first
\* call, no half-pass writes the input, and half-pass 0 of every render reads
\* that input, not one of the ping-pong textures.
C12_InputPreserved ==
    dnInput0 \notin DenoiseTextures =>
        /\ dnPc = "idle" => dnUniforms.inputTexture = dnInput0
        /\ dnPc # "idle" => dnLocals.inputTexture = dnInput0
        /\ \A k \in 1..Len(dnLog) : dnLog[k].write # dnInput0
        /\ Len(dnLog) >= 1 => dnLog[1].read = dnInput0

\* half-pass 0 of a later render: B still holds the result of an earlier one
C12_Witness ==
    /\ dnInput0 = "input"
    /\ dnPc = "loop"
    /\ Len(dnLog) = 1
    /\ dnTex["rtB"].kind = "denoised"
    /\ dnTex["rtB"].age >= 1

\* C13 (as claimed): after every render() call, for every iterations >= 0, the
\* texture returned by the texture getter was written during that call, by a
\* chain of half-passes that starts from that call's input.
C13_ResultWrittenThisRender ==
    (dnPc = "idle" /\ dnLocals.inputTexture # "null") =>
        /\ \E k \in 1..Len(dnLog) : dnLog[k].write = DenoiseTexture
        /\ Len(dnLog) >= 1 /\ dnLog[1].read = dnLocals.inputTexture

\* C15: at every point between operations the public accumulatedTexture field
\* refers to the history slot the resolve step reads as accumulated colour
\* (copy-pass target 0, the value of the accumulatedTexture uniform), not to the
\* pass's own output texture; before and after any number of render() calls.
C15_FieldIsHistorySlot ==
    pc = "idle" =>
        /\ accumulatedTexture = uniforms.accumulatedTexture
        /\ accumulatedTexture = TexturesOf("copyRT")[1]
        /\ accumulatedTexture # Texture

-----------------------------------------------------------------------------
(* Properties: velocity pass (checked under SpecVelocity)                  *)

\* C14: after VelocityPass.render() has returned, every mesh that was visible
\* at its start has the material and the visible flag it had immediately
\* before the call, and the scene background is the one of before the call;
\* over any sequence of renders, also when the application replaced a mesh's
\* material between two renders.
C14_SceneRestored ==
    (atStart.valid /\ pc \notin {"vel_draw", "vel_end"}) =>
        /\ \A c \in Meshes :
               atStart.visible[c] =>
                   /\ meshMaterial[c] = atStart.material[c]
                   /\ meshVisible[c] = atStart.visible[c]
        /\ background = atStart.background

\* a render has returned for a mesh whose material had been replaced since
\* the render before, by one that hides the mesh during the draw
C14_Witness ==
    /\ atStart.valid
    /\ pc = "idle"
    /\ atStart.background = "sky"
    /\ atStart.replaced

-----------------------------------------------------------------------------
(* Properties: resizing (checked under SpecSize)                           *)

\* the <<width, height>> of the resolver's last setSize call, read back from
\* the invTexSize uniform; <<0, 0>> before the first call
LastSetSize ==
    IF uniforms.invTexSize = <<0, 0>> THEN <<0, 0>>
    ELSE <<Unit \div uniforms.invTexSize[1], Unit \div uniforms.invTexSize[2]>>

=============================================================================
